---- MODULE Spec2Model ----
(***************************************************************************)
(* A model of the chameleon compression crate: the BitStream, the DEFLATE  *)
(* block header parser, the LZSS match finder and its code tables, the     *)
(* Huffman coder and the chunk walk of the PNG decoder.                    *)
(* Each component has its own specification (SpecBits, SpecHeader, ...);   *)
(* the variables of the other components stay at their initial values.     *)
(***************************************************************************)
EXTENDS Integers, Sequences, FiniteSets, TLC

VARIABLES
    \* bits/bitstream.rs: struct BitStream
    len,            \* BitStream.len
    bytes,          \* BitStream.bytes
    pushed,         \* history: the arguments given to push, in call order
    warned,         \* whether the last push printed the non-binary warning
    \* compression/deflate.rs: parse_block_header
    header_byte,    \* the first byte of the block at hand
    header,         \* <<bfinal, btype>> once parsed, <<>> before
    \* compression/lzss.rs and compression.rs: struct LempelZiv and compress
    variant,        \* which of the two files' compress runs
    data,           \* LempelZiv.data
    buffer_size,    \* LempelZiv.buffer_size
    i,              \* compress: the index of the next byte of the for loop
    search_buffer,  \* compress: search_buffer
    check_for,      \* compress: check_for
    tokens,         \* compress: the lines printed so far, one per token
    returned,       \* compress: the returned Vec<u8>, <<>> while the loop runs
    \* compression/lzss.rs: LENGTH_CODE_RANGES, DISTANCE_CODE_RANGES
    ranges,         \* the table read, "None" before it is
    rows,           \* the rows (from 1) read, or found to hold range_value
    extra,          \* the extra bits read with the row, -1 when there are none
    range_value,    \* the length or distance decoded or looked for
    \* compression/huffman.rs and main.rs: Huffman::encode, Huffman::decode
    overflow_checks,\* the build: TRUE panics on integer overflow, FALSE wraps
    input,          \* the buffer given to encode, or the first bytes of a long one
    table,          \* the occurrences of each byte value in a long buffer
    huffman_tree,   \* what create_huffman_tree returned for the table
    encoded,        \* what encode returned
    stream,         \* the bytes given to decode
    decoded,        \* what decode returned
    \* png/decoder.rs: PngData::build, get_chunk_indexes, walk
    raw_data,       \* PngData.raw_data
    walk_index,     \* PngData.index
    ihdr_index,     \* get_chunk_indexes: ihdr_index
    plte_index,     \* get_chunk_indexes: plte_index
    idat_index,     \* get_chunk_indexes: idat_index
    crc_index,      \* get_chunk_indexes: crc_index
    built           \* what build came to: "None" while the loop runs

bitsVars == <<len, bytes, pushed, warned>>
headerVars == <<header_byte, header>>
tableVars == <<ranges, rows, extra, range_value>>
lzVars == <<variant, data, buffer_size, i, search_buffer, check_for, tokens, returned,
            ranges, rows, extra, range_value>>
huffmanVars == <<overflow_checks, input, table, huffman_tree, encoded, stream, decoded>>
pngVars == <<raw_data, walk_index, ihdr_index, plte_index, idat_index, crc_index,
             built>>
vars == <<len, bytes, pushed, warned, header_byte, header,
          variant, data, buffer_size, i, search_buffer, check_for, tokens, returned,
          ranges, rows, extra, range_value,
          overflow_checks, input, table, huffman_tree, encoded, stream, decoded,
          raw_data, walk_index, ihdr_index, plte_index, idat_index, crc_index,
          built>>

(***************************************************************************)
(* Machine integers.                                                       *)
(***************************************************************************)
\* 2^n, n <= 16
Pow2(n) ==
    <<1, 2, 4, 8, 16, 32, 64, 128, 256, 512, 1024, 2048, 4096, 8192, 16384,
      32768, 65536>>[n + 1]

U8 == 0 .. 255

\* a & b on naturals, bit by bit.
RECURSIVE BitAnd(_, _)
BitAnd(a, b) ==
    IF a = 0 \/ b = 0 THEN 0
    ELSE (a % 2) * (b % 2) + 2 * BitAnd(a \div 2, b \div 2)

\* a | b on naturals, bit by bit.
RECURSIVE BitOr(_, _)
BitOr(a, b) ==
    IF a = 0 THEN b
    ELSE IF b = 0 THEN a
    ELSE (IF a % 2 = 1 \/ b % 2 = 1 THEN 1 ELSE 0) + 2 * BitOr(a \div 2, b \div 2)

\* x >> n
Shr(x, n) ==
    x \div Pow2(n)

\* x << n on a u8: the bits shifted past bit 7 are dropped.
Shl8(x, n) ==
    (x * Pow2(n)) % 256

\* Body(e) with e evaluated once, before Body: a `let` of the code.  (TLC
\* evaluates the arguments of an operator each time they are used.)
Eval(Body(_), e) == CHOOSE result \in {Body(value) : value \in {e}} : TRUE

\* The loops of the code are operators of the form Rounds(state, rounds):
\* `rounds` rounds of the loop from `state`, a round being the identity once
\* the loop has ended.  The rounds are evaluated in two halves, one after the
\* other, which keeps the evaluation of a long loop shallow.
FirstHalf(rounds) == rounds \div 2

SecondHalf(rounds) == rounds - (rounds \div 2)

(***************************************************************************)
(* bits/bitstream.rs                                                       *)
(***************************************************************************)
\* The longest bitstream the model builds.
MaxBits == 9

\* The u8 values the model hands to push: the two bits and two non-bits.
PushArgs == {0, 1, 2, 255}

\* push, lines 69-78: 0 and 1 pass, anything else becomes 1 (with a warning).
NormalizedBit(bit) ==
    IF bit = 0 THEN 0 ELSE 1

\* push, line 103 without the shift: the bit at the low end of the new byte.
WorkingByteUnshifted(normalized_bit) ==
    normalized_bit

\* push, line 103: the new byte, the bit at its most significant end.
WorkingByte(normalized_bit) ==
    Shl8(normalized_bit, 7)

\* push, lines 93-96 with the shift one too large.
FillLastByteShiftOff(byte, bit_index, normalized_bit) ==
    LET shift == 8 - bit_index
    IN  Shl8(BitOr(Shr(byte, shift), normalized_bit), shift)

\* push, lines 93-96: the new value of the last, partly filled byte.
FillLastByte(byte, bit_index, normalized_bit) ==
    LET shift == 8 - bit_index - 1
    IN  Shl8(BitOr(Shr(byte, shift), normalized_bit), shift)

\* BitStream::new
BitStreamNew ==
    /\ len = 0
    /\ bytes = <<>>
    /\ pushed = <<>>
    /\ warned = FALSE

\* BitStream::push(bit)
Push(bit) ==
    LET normalized_bit == NormalizedBit(bit)
        bit_index == len % 8
    IN  /\ len < MaxBits
        /\ warned' = (bit \notin {0, 1})
        /\ pushed' = Append(pushed, bit)
        /\ IF bit_index /= 0
           THEN /\ bytes' = [bytes EXCEPT ![Len(bytes)] =
                                FillLastByte(bytes[Len(bytes)], bit_index, normalized_bit)]
                /\ len' = len + 1
           ELSE /\ bytes' = Append(bytes, WorkingByte(normalized_bit))
                /\ len' = len + 1
        /\ UNCHANGED <<headerVars, lzVars, huffmanVars, pngVars>>

\* Reading the buffer back: bit i (from 0) of the stream sits in byte i / 8,
\* at position 7 - i % 8.
BitAt(pos) ==
    Shr(bytes[(pos \div 8) + 1], 7 - (pos % 8)) % 2

ReadBack ==
    [k \in 1 .. len |-> BitAt(k - 1)]

(***************************************************************************)
(* compression/deflate.rs                                                  *)
(***************************************************************************)
\* parse_block_header with the BTYPE mask covering one bit only.
parse_block_header_narrow_mask(byte) ==
    <<BitAnd(byte, 1) /= 0, Shr(BitAnd(byte, 4), 1)>>

\* parse_block_header(byte) -> (bfinal, btype)
parse_block_header(byte) ==
    LET bfinal == BitAnd(byte, 1) /= 0
        btype == Shr(BitAnd(byte, 6), 1)
    IN  <<bfinal, btype>>

HeaderIdle ==
    /\ header_byte = 0
    /\ header = <<>>

\* The caller holds the first byte of a block.
HeaderInit ==
    /\ header_byte \in U8
    /\ header = <<>>

ParseBlockHeader ==
    /\ header = <<>>
    /\ header' = parse_block_header(header_byte)
    /\ UNCHANGED header_byte
    /\ UNCHANGED <<bitsVars, lzVars, huffmanVars, pngVars>>

\* The caller moves on to the first byte of another block.
NextBlock ==
    /\ header /= <<>>
    /\ header_byte' \in U8
    /\ header' = <<>>
    /\ UNCHANGED <<bitsVars, lzVars, huffmanVars, pngVars>>

(***************************************************************************)
(* compression/lzss.rs (and the older copy in compression.rs)              *)
(***************************************************************************)
\* The longest input the model compresses, and the number of byte values
\* ('A', 'B', ...) its inputs are drawn from.
MaxData == 10

NumBytes == 2

\* The byte values 'A', 'B', ...
Alphabet == 65 .. (65 + NumBytes - 1)

\* LempelZiv::new, line 112
DEFAULT_BUFFER_SIZE == 32768

\* LempelZiv::new gives the default, with_buf_size what the caller says.
BufferSizes == {1, 2, DEFAULT_BUFFER_SIZE}

Inputs == UNION {[1 .. n -> Alphabet] : n \in 0 .. MaxData}

SubSeqFrom(s, a, b) ==
    [k \in 1 .. (b - a + 1) |-> s[a + k - 1]]

\* The length of n printed with {}: its digits, and the sign of a negative.
RECURSIVE Digits(_)
Digits(n) ==
    IF n < 10 THEN 1 ELSE 1 + Digits(n \div 10)

DisplayLen(n) ==
    IF n < 0 THEN 1 + Digits(0 - n) ELSE Digits(n)

\* in_array: the loop over check_from from (0-based) index with offset.
RECURSIVE in_array_from(_, _, _, _)
in_array_from(needle, haystack, index, offset) ==
    IF index >= Len(haystack) THEN -1
    ELSE IF Len(needle) <= offset THEN index - Len(needle)
    ELSE in_array_from(needle, haystack, index + 1,
                       IF needle[offset + 1] = haystack[index + 1]
                       THEN offset + 1 ELSE 0)

\* LempelZiv::in_array(check_for, check_from)
in_array(needle, haystack) ==
    in_array_from(needle, haystack, 0, 0)

Literal(at, byte) ==
    [kind |-> "Literal", at |-> at, byte |-> byte]

Match(offset, length) ==
    [kind |-> "Match", distance |-> offset, length |-> length]

\* compress, the body of `if check_for.len() > 1`: what one emission prints.
\* cf is check_for with the current byte pushed, sb the search buffer.
Emitted(file, at, byte, cf, sb) ==
    IF Len(cf) > 1
    THEN LET index == in_array(SubSeqFrom(cf, 1, Len(cf) - 1), sb)
             offset == at - index - Len(cf)
             length == Len(cf)
             token_len == DisplayLen(offset) + 2 + DisplayLen(length)
         IN  IF file = "lzss.rs" /\ token_len > length
             THEN Literal(at, byte)
             ELSE Match(offset, length)
    ELSE Literal(at, byte)

(***************************************************************************)
(* compression/lzss.rs: the length and distance code tables                *)
(***************************************************************************)
\* Rows <<symbol, extra bits, range start, range end>>, lines 19-49.
LENGTH_CODE_RANGES ==
    <<<<257, 0, 3, 3>>, <<258, 0, 4, 4>>, <<259, 0, 5, 5>>, <<260, 0, 6, 6>>,
      <<261, 0, 7, 7>>, <<262, 0, 8, 8>>, <<263, 0, 9, 9>>,
      <<264, 0, 10, 10>>, <<265, 1, 11, 12>>, <<266, 1, 13, 14>>,
      <<267, 1, 15, 16>>, <<268, 1, 17, 18>>, <<269, 2, 19, 22>>,
      <<270, 2, 23, 26>>, <<271, 2, 27, 30>>, <<272, 2, 31, 34>>,
      <<273, 3, 35, 42>>, <<274, 3, 43, 50>>, <<275, 3, 51, 58>>,
      <<276, 3, 59, 66>>, <<277, 4, 67, 82>>, <<278, 4, 83, 98>>,
      <<279, 4, 99, 114>>, <<280, 4, 115, 130>>, <<281, 5, 131, 162>>,
      <<282, 5, 163, 194>>, <<283, 5, 195, 226>>, <<284, 5, 227, 257>>,
      <<285, 0, 258, 258>>>>

\* Rows <<symbol, extra bits, range start, range end>>, lines 59-90.
DISTANCE_CODE_RANGES ==
    <<<<0, 0, 1, 1>>, <<1, 0, 2, 2>>, <<2, 0, 3, 3>>, <<3, 0, 4, 4>>,
      <<4, 1, 5, 6>>, <<5, 1, 7, 8>>, <<6, 2, 9, 12>>, <<7, 2, 13, 16>>,
      <<8, 3, 17, 24>>, <<9, 3, 25, 32>>, <<10, 4, 33, 48>>,
      <<11, 4, 49, 64>>, <<12, 5, 65, 96>>, <<13, 5, 97, 128>>,
      <<14, 6, 129, 192>>, <<15, 6, 193, 256>>, <<16, 7, 257, 384>>,
      <<17, 7, 385, 512>>, <<18, 8, 513, 768>>, <<19, 8, 769, 1024>>,
      <<20, 9, 1025, 1536>>, <<21, 9, 1537, 2048>>, <<22, 10, 2049, 3072>>,
      <<23, 10, 3073, 4096>>, <<24, 11, 4097, 6144>>, <<25, 11, 6145, 8192>>,
      <<26, 12, 8193, 12288>>, <<27, 12, 12289, 16384>>,
      <<28, 13, 16385, 24576>>, <<29, 13, 24577, 32768>>>>

\* The table of the given name.
Ranges(name) ==
    IF name = "LENGTH_CODE_RANGES" THEN LENGTH_CODE_RANGES ELSE DISTANCE_CODE_RANGES

RangeNames == {"LENGTH_CODE_RANGES", "DISTANCE_CODE_RANGES"}

\* The match lengths and the distances of DEFLATE.
LegalValues(name) ==
    IF name = "LENGTH_CODE_RANGES" THEN 3 .. 258 ELSE 1 .. 32768

\* The value v with both ends of the range of row r left out.
InRangeExclusive(r, v) ==
    r[3] < v /\ v < r[4]

\* The value v is in the inclusive range of row r.
InRange(r, v) ==
    r[3] <= v /\ v <= r[4]

\* The rows of the table whose range holds v.
RowsOf(name, v) ==
    {k \in 1 .. Len(Ranges(name)) : InRange(Ranges(name)[k], v)}

\* The value of row r without its extra bits.
ExtraValueDropped(r, x) ==
    r[3]

\* The value that the extra bits x select in row r: range start + x, a u16.
ExtraValue(r, x) ==
    (r[3] + x) % 65536

TablesIdle ==
    /\ ranges = "None"
    /\ rows = {}
    /\ extra = 0
    /\ range_value = 0

\* A reader of a table takes the row of a symbol and extra bits for it, as
\* many as the row says, and has the value they stand for.
ReadExtra ==
    /\ ranges = "None"
    /\ \E name \in RangeNames :
           \E k \in 1 .. Len(Ranges(name)) :
               \E x \in 0 .. (Pow2(Ranges(name)[k][2]) - 1) :
                   /\ ranges' = name
                   /\ rows' = {k}
                   /\ extra' = x
                   /\ range_value' = ExtraValue(Ranges(name)[k], x)
    /\ UNCHANGED <<variant, data, buffer_size, i, search_buffer, check_for, tokens, returned>>
    /\ UNCHANGED <<bitsVars, headerVars, huffmanVars, pngVars>>

\* A writer of the codes takes a legal length or distance and looks for the
\* rows whose range holds it.
FindRows ==
    /\ ranges = "None"
    /\ \E name \in RangeNames :
           \E v \in LegalValues(name) :
               /\ ranges' = name
               /\ rows' = RowsOf(name, v)
               /\ extra' = -1
               /\ range_value' = v
    /\ UNCHANGED <<variant, data, buffer_size, i, search_buffer, check_for, tokens, returned>>
    /\ UNCHANGED <<bitsVars, headerVars, huffmanVars, pngVars>>

\* LempelZiv::new / with_buf_size, and the first lines of compress.
LzInit ==
    /\ variant \in {"lzss.rs", "compression.rs"}
    /\ data \in Inputs
    /\ buffer_size \in BufferSizes
    /\ i = 0
    /\ search_buffer = <<>>
    /\ check_for = <<>>
    /\ tokens = <<>>
    /\ returned = <<>>
    /\ TablesIdle

LzIdle ==
    /\ variant = "lzss.rs"
    /\ data = <<>>
    /\ buffer_size = DEFAULT_BUFFER_SIZE
    /\ i = 0
    /\ search_buffer = <<>>
    /\ check_for = <<>>
    /\ tokens = <<>>
    /\ returned = <<>>
    /\ TablesIdle

\* compress: one iteration of `for (i, byte) in data`.
CompressStep ==
    /\ returned = <<>>
    /\ i < Len(data)
    /\ LET byte == data[i + 1]
           cf == Append(check_for, byte)
           index == in_array(cf, search_buffer)
       IN  /\ IF index = -1 \/ i = Len(data) - 1
              THEN /\ tokens' = Append(tokens, Emitted(variant, i, byte, cf, search_buffer))
                   /\ check_for' = <<>>
              ELSE /\ tokens' = tokens
                   /\ check_for' = cf
           /\ search_buffer' = Append(search_buffer, byte)
    /\ i' = i + 1
    /\ UNCHANGED <<variant, data, buffer_size, returned, tableVars>>
    /\ UNCHANGED <<bitsVars, headerVars, huffmanVars, pngVars>>

\* compress: the loop is over, `vec![0]` is returned.
CompressReturn ==
    /\ returned = <<>>
    /\ i = Len(data)
    /\ returned' = <<0>>
    /\ UNCHANGED <<variant, data, buffer_size, i, search_buffer, check_for, tokens, tableVars>>
    /\ UNCHANGED <<bitsVars, headerVars, huffmanVars, pngVars>>

(***************************************************************************)
(* compression/huffman.rs: the tree                                        *)
(*                                                                         *)
(* The Rc<RefCell<Node>> graph is an arena: a sequence of Node records,    *)
(* a node's id its place in it, 0 standing for None.  The leaf of byte     *)
(* value v has id v + 1.                                                   *)
(*                                                                         *)
(* TLC's integers are 32-bit signed, so a u32 is kept as its two 16-bit     *)
(* halves <<high, low>> and a u64 as four, most significant first.         *)
(***************************************************************************)
HALF == 65536

\* The u32 of a small natural.
U32(n) ==
    <<n \div HALF, n % HALF>>

U32_ZERO == <<0, 0>>

U32_MAX == <<HALF - 1, HALF - 1>>

\* a <= b on u32
U32Le(a, b) ==
    a[1] < b[1] \/ (a[1] = b[1] /\ a[2] <= b[2])

\* u32::saturating_add
SaturatingAdd(a, b) ==
    LET low == a[2] + b[2]
        high == a[1] + b[1] + (low \div HALF)
    IN  IF high >= HALF THEN U32_MAX ELSE <<high, low % HALF>>

\* x << 1 on a u32: the bit shifted past bit 31 is dropped.
Shl32(x) ==
    <<(x[1] * 2 + (x[2] \div (HALF \div 2))) % HALF, (x[2] * 2) % HALF>>

\* x << n on a u32, n < 32: the bits shifted past bit 31 are dropped.
Shl32By(x, n) ==
    IF n >= 16
    THEN <<(x[2] % Pow2(32 - n)) * Pow2(n - 16), 0>>
    ELSE <<(x[1] % Pow2(16 - n)) * Pow2(n) + (x[2] \div Pow2(16 - n)),
           (x[2] % Pow2(16 - n)) * Pow2(n)>>

\* address | 1 left out.
SetLowBitOff(a) ==
    a

\* x + 1 on a u32 whose lowest bit is clear
SetLowBit(x) ==
    <<x[1], x[2] + 1>>

\* x & 0x8000_0000 > 0
TopBit(x) ==
    x[1] >= HALF \div 2

\* u32::to_le_bytes
ToLeBytes(x) ==
    <<x[2] % 256, x[2] \div 256, x[1] % 256, x[1] \div 256>>

\* u32::from_le_bytes
FromLeBytes(b) ==
    <<b[3] + 256 * b[4], b[1] + 256 * b[2]>>

U64_ZERO == <<0, 0, 0, 0>>

\* count += num as u64 (the sum of 256 u32 values cannot pass u64::MAX)
U64AddU32(c, x) ==
    LET l0 == c[4] + x[2]
        l1 == c[3] + x[1] + (l0 \div HALF)
        l2 == c[2] + (l1 \div HALF)
        l3 == c[1] + (l2 \div HALF)
    IN  <<l3 % HALF, l2 % HALF, l1 % HALF, l0 % HALF>>

\* count - 1 on a u64, wrapping at 0
U64WrappingDec(c) ==
    IF c[4] > 0 THEN <<c[1], c[2], c[3], c[4] - 1>>
    ELSE IF c[3] > 0 THEN <<c[1], c[2], c[3] - 1, HALF - 1>>
    ELSE IF c[2] > 0 THEN <<c[1], c[2] - 1, HALF - 1, HALF - 1>>
    ELSE IF c[1] > 0 THEN <<c[1] - 1, HALF - 1, HALF - 1, HALF - 1>>
    ELSE <<HALF - 1, HALF - 1, HALF - 1, HALF - 1>>

\* Node::new, then the fields the loop at lines 104-115 sets.
LeafNode(value, frequency) ==
    [leaf |-> TRUE, value |-> value, frequency |-> frequency,
     address |-> U32_ZERO, length |-> 0, left |-> 0, right |-> 0]

\* The parent of lines 131-141.
ParentNode(nodes, node_1, node_2) ==
    [leaf |-> FALSE, value |-> 0,
     frequency |-> SaturatingAdd(nodes[node_1].frequency, nodes[node_2].frequency),
     address |-> U32_ZERO, length |-> 0, left |-> node_1, right |-> node_2]

\* impl Ord for Node under Reverse, the other way round: the larger frequency first.
ReverseLeLargestFirst(nodes, a, b) ==
    U32Le(nodes[a].frequency, nodes[b].frequency)

\* impl Ord for Node under Reverse: Reverse(a) <= Reverse(b) iff b <= a,
\* and nodes compare by frequency alone.
ReverseLe(nodes, a, b) ==
    U32Le(nodes[b].frequency, nodes[a].frequency)

\* BinaryHeap::sift_up(start, pos) with the element `elt` held out of the
\* hole at pos.  Heap positions are 0-based as in the code; heap[pos + 1].
RECURSIVE SiftUp(_, _, _, _, _)
SiftUp(nodes, heap, start, pos, elt) ==
    IF pos > start /\ ~ReverseLe(nodes, elt, heap[((pos - 1) \div 2) + 1])
    THEN Eval(LAMBDA moved : SiftUp(nodes, moved, start, (pos - 1) \div 2, elt),
              [heap EXCEPT ![pos + 1] = heap[((pos - 1) \div 2) + 1]])
    ELSE [heap EXCEPT ![pos + 1] = elt]

\* BinaryHeap::sift_down_to_bottom: the hole moves down to a leaf of the
\* heap, always towards the greater child; yields <<heap, pos>>.
RECURSIVE SiftDownToBottom(_, _, _)
SiftDownToBottom(nodes, heap, pos) ==
    LET end == Len(heap)
        child == 2 * pos + 1
    IN  IF end >= 2 /\ child <= end - 2
        THEN Eval(LAMBDA c :
                      Eval(LAMBDA moved : SiftDownToBottom(nodes, moved, c),
                           [heap EXCEPT ![pos + 1] = heap[c + 1]]),
                  IF ReverseLe(nodes, heap[child + 1], heap[child + 2])
                  THEN child + 1 ELSE child)
        ELSE IF child = end - 1
        THEN <<[heap EXCEPT ![pos + 1] = heap[child + 1]], child>>
        ELSE <<heap, pos>>

\* nodes.push(Reverse(node))
HeapPush(nodes, heap, node) ==
    SiftUp(nodes, Append(heap, node), 0, Len(heap), node)

\* pop() of a Vec in place of the heap's: the last node pushed, whatever
\* its frequency.
HeapPopLast(nodes, heap) ==
    <<heap[Len(heap)], SubSeq(heap, 1, Len(heap) - 1)>>

\* nodes.pop().unwrap().0 on a non-empty heap: <<the node popped, the heap left>>.
HeapPop(nodes, heap) ==
    LET item == heap[Len(heap)]
        rest == SubSeq(heap, 1, Len(heap) - 1)
    IN  IF Len(heap) = 1
        THEN <<item, <<>>>>
        ELSE Eval(LAMBDA down : <<heap[1], SiftUp(nodes, down[1], 0, down[2], item)>>,
                  SiftDownToBottom(nodes, [rest EXCEPT ![1] = item], 0))

\* Lines 104-115: `rounds` rounds of the loop, which pushes a leaf per byte
\* value in value order; `next` is the first leaf not pushed yet.
RECURSIVE PushLeaves(_, _, _, _)
PushLeaves(nodes, heap, next, rounds) ==
    IF rounds = 0 THEN heap
    ELSE IF rounds = 1 THEN HeapPush(nodes, heap, next)
    ELSE Eval(LAMBDA pushed_to :
                  PushLeaves(nodes, pushed_to, next + FirstHalf(rounds), SecondHalf(rounds)),
              PushLeaves(nodes, heap, next, FirstHalf(rounds)))

\* Lines 118-143: one round of the loop, on t = <<nodes, heap>>; the loop
\* has ended when a single node is left in the heap.
MergeTwo(t) ==
    IF Len(t[2]) <= 1 THEN t
    ELSE
    Eval(LAMBDA first :
             Eval(LAMBDA second :
                      Eval(LAMBDA grown :
                               <<grown, HeapPush(grown, second[2], Len(grown))>>,
                           Append(t[1], ParentNode(t[1], first[1], second[1]))),
                  HeapPop(t[1], first[2])),
         HeapPop(t[1], t[2]))

\* Lines 118-144: merge the two least frequent nodes until one is left.
\* Yields <<nodes, heap>> with a single node, the root, in the heap, when
\* `rounds` is at least the number of nodes in the heap.
RECURSIVE MergeNodes(_, _)
MergeNodes(t, rounds) ==
    IF rounds = 0 THEN t
    ELSE IF rounds = 1 THEN MergeTwo(t)
    ELSE Eval(LAMBDA merged : MergeNodes(merged, SecondHalf(rounds)),
              MergeNodes(t, FirstHalf(rounds)))

\* Lines 155-186: one round of the loop, on t = <<nodes, queue>>; an empty
\* queue ends the loop (as does the `break` of line 171).
AddressChildren(t) ==
    LET node == t[2][Len(t[2])]
        rest == SubSeq(t[2], 1, Len(t[2]) - 1)
        n == t[1][node]
    IN  IF t[2] = <<>> THEN t
        ELSE IF n.leaf THEN <<t[1], rest>>
        ELSE IF n.left = 0 \/ n.right = 0
        THEN <<[t[1] EXCEPT ![node].leaf = TRUE], <<>>>>
        ELSE <<[t[1] EXCEPT ![n.left].address = Shl32(n.address),
                            ![n.left].length = n.length + 1,
                            ![n.right].address = SetLowBit(Shl32(n.address)),
                            ![n.right].length = n.length + 1],
               Append(Append(rest, n.right), n.left)>>

\* Lines 154-187: addresses and lengths, from the root down; the queue is
\* the Vec used as a stack.  The queue is empty after as many rounds as
\* there are nodes.
RECURSIVE AssignAddresses(_, _)
AssignAddresses(t, rounds) ==
    IF rounds = 0 THEN t
    ELSE IF rounds = 1 THEN AddressChildren(t)
    ELSE Eval(LAMBDA addressed : AssignAddresses(addressed, SecondHalf(rounds)),
              AssignAddresses(t, FirstHalf(rounds)))

\* create_huffman_tree(frequencies) -> (leaves, root): the arena and the
\* root's id; the leaves are the nodes 1 .. Len(frequencies).
create_huffman_tree(frequencies) ==
    Eval(LAMBDA leaves :
             Eval(LAMBDA merged :
                      [nodes |-> AssignAddresses(<<merged[1], merged[2]>>,
                                                 Len(merged[1]))[1],
                       root |-> merged[2][1]],
                  MergeNodes(<<leaves, PushLeaves(leaves, <<>>, 1, Len(leaves))>>,
                             Len(leaves))),
         [v \in 1 .. Len(frequencies) |-> LeafNode(v - 1, frequencies[v])])

(***************************************************************************)
(* compression/huffman.rs: impl Coder<u8, u8> for Huffman                  *)
(***************************************************************************)
\* The number of byte values of the model's alphabet (256 in the code), and
\* the longest buffer it encodes.
NumSymbols == 3

MaxInput == 4

\* std::mem::size_of::<u32>()
SIZE_OF_U32 == 4

HuffmanInputs == UNION {[1 .. n -> 0 .. (NumSymbols - 1)] : n \in 0 .. MaxInput}

NoResult == [status |-> "None", bytes |-> <<>>]

\* encode, lines 232-235: the occurrences of each byte value.
RECURSIVE CountFrequencies(_, _, _)
CountFrequencies(buffer, k, frequencies) ==
    IF k > Len(buffer) THEN frequencies
    ELSE Eval(LAMBDA counted : CountFrequencies(buffer, k + 1, counted),
              [frequencies EXCEPT ![buffer[k] + 1] = SaturatingAdd(@, U32(1))])

\* encode, lines 238-241: the counts, little-endian, four bytes each.
HeaderBytes(frequencies) ==
    [k \in 1 .. SIZE_OF_U32 * Len(frequencies) |->
        ToLeBytes(frequencies[((k - 1) \div SIZE_OF_U32) + 1])[((k - 1) % SIZE_OF_U32) + 1]]

\* encode, line 252: the shift `32 - length` of a u32; -1 stands for the
\* panic of a build with overflow checks (32 - length below 0, or a shift of 32).
CodeShift(length, checks) ==
    IF length >= 1 /\ length <= 32 THEN 32 - length
    ELSE IF checks THEN -1
    ELSE (32 - (length % 32)) % 32

\* encode, lines 258-270: one round of the loop; the top bit of code goes
\* into the packer state p = [output, next, filled, code].
PackBit(p) ==
    LET next == Shl8(p.next, 1) + (IF TopBit(p.code) THEN 1 ELSE 0)
    IN  IF p.filled + 1 = 8
        THEN [output |-> Append(p.output, next), next |-> 0, filled |-> 0,
              code |-> Shl32(p.code)]
        ELSE [output |-> p.output, next |-> next, filled |-> p.filled + 1,
              code |-> Shl32(p.code)]

\* encode, lines 256-271: `rounds` rounds of the loop, one per bit of the code.
RECURSIVE PackCode(_, _)
PackCode(p, rounds) ==
    IF rounds = 0 THEN p
    ELSE IF rounds = 1 THEN PackBit(p)
    ELSE Eval(LAMBDA packed : PackCode(packed, SecondHalf(rounds)),
              PackCode(p, FirstHalf(rounds)))

\* A panic of encode, as a packer state.
Panicked == [output |-> <<>>, next |-> 0, filled |-> -1, code |-> U32_ZERO]

\* encode, lines 249-272: the loop over the input from its k-th byte.
RECURSIVE EncodeFrom(_, _, _, _, _)
EncodeFrom(nodes, buffer, k, p, checks) ==
    IF k > Len(buffer) THEN p
    ELSE LET leaf == nodes[buffer[k] + 1]
             shift == CodeShift(leaf.length, checks)
         IN  IF shift < 0 THEN Panicked
             ELSE Eval(LAMBDA packed : EncodeFrom(nodes, buffer, k + 1, packed, checks),
                       PackCode([p EXCEPT !.code = Shl32By(leaf.address, shift)],
                                leaf.length))

\* encode, lines 274-278, with the last, partly filled byte dropped.
FlushDropsLastByte(p) ==
    IF p.filled < 0 THEN [status |-> "Panic", bytes |-> <<>>]
    ELSE [status |-> "Ok", bytes |-> p.output]

\* encode, lines 274-278: the last byte is padded with zero bits.
Flush(p) ==
    IF p.filled < 0 THEN [status |-> "Panic", bytes |-> <<>>]
    ELSE IF p.filled /= 0
    THEN [status |-> "Ok", bytes |-> Append(p.output, Shl8(p.next, 8 - p.filled))]
    ELSE [status |-> "Ok", bytes |-> p.output]

\* encode, lines 236-278: the header and the codes of the bytes of buffer,
\* with the tree of the counts `frequencies`.
EncodeWith(frequencies, buffer, checks) ==
    Eval(LAMBDA tree :
             Eval(LAMBDA p : Flush(p),
                  EncodeFrom(tree.nodes, buffer, 1,
                             [output |-> HeaderBytes(frequencies),
                              next |-> 0, filled |-> 0, code |-> U32_ZERO],
                             checks)),
         create_huffman_tree(frequencies))

\* Huffman::encode(input) over an alphabet of n byte values.
encode(buffer, n, checks) ==
    Eval(LAMBDA frequencies : EncodeWith(frequencies, buffer, checks),
         CountFrequencies(buffer, 1, [v \in 1 .. n |-> U32_ZERO]))

\* decode, lines 288-304: the k-th count of the header.
HeaderFrequency(bytes_in, k) ==
    FromLeBytes(SubSeqFrom(bytes_in, SIZE_OF_U32 * (k - 1) + 1, SIZE_OF_U32 * k))

\* decode, lines 292-303: `rounds` rounds of the loop from the k-th count
\* of the header on; count is the sum of the counts.
RECURSIVE DeclaredCount(_, _, _, _)
DeclaredCount(frequencies, count, k, rounds) ==
    IF rounds = 0 THEN count
    ELSE IF rounds = 1 THEN U64AddU32(count, frequencies[k])
    ELSE Eval(LAMBDA counted :
                  DeclaredCount(frequencies, counted, k + FirstHalf(rounds), SecondHalf(rounds)),
              DeclaredCount(frequencies, count, k, FirstHalf(rounds)))

\* The bit of the payload at (0-based) position pos: `v & 0x80` after
\* pos % 8 shifts of byte pos / 8.
PayloadBit(payload, pos) ==
    Shr(payload[(pos \div 8) + 1], 7 - (pos % 8)) % 2

\* decode, lines 311-340 without the early return at count == 0.
DecodeBitNoEarlyReturn(tree, payload, d, checks) ==
    LET node == tree.nodes[d.current]
        child == IF PayloadBit(payload, d.pos) = 0 THEN node.left ELSE node.right
    IN  IF d.status /= "Walking" \/ d.pos >= 8 * Len(payload) THEN d
        ELSE IF child = 0 THEN [d EXCEPT !.status = "Err", !.output = <<>>]
        ELSE IF tree.nodes[child].leaf
        THEN IF d.count = U64_ZERO /\ checks
             THEN [d EXCEPT !.status = "Panic", !.output = <<>>]
             ELSE [d EXCEPT !.pos = @ + 1, !.current = tree.root,
                            !.count = U64WrappingDec(@),
                            !.output = Append(@, tree.nodes[child].value)]
        ELSE [d EXCEPT !.pos = @ + 1, !.current = child]

\* decode, lines 311-340: one round of the inner loop; a bit of the payload
\* moves the walk d = [status, pos, current, count, output].  The loops have
\* ended when decode has returned or the payload is used up.
DecodeBit(tree, payload, d, checks) ==
    LET node == tree.nodes[d.current]
        child == IF PayloadBit(payload, d.pos) = 0 THEN node.left ELSE node.right
    IN  IF d.status /= "Walking" \/ d.pos >= 8 * Len(payload) THEN d
        ELSE IF child = 0 THEN [d EXCEPT !.status = "Err", !.output = <<>>]
        ELSE IF tree.nodes[child].leaf
        THEN IF d.count = U64_ZERO /\ checks
             THEN [d EXCEPT !.status = "Panic", !.output = <<>>]
             ELSE IF U64WrappingDec(d.count) = U64_ZERO
             THEN [d EXCEPT !.status = "Ok", !.count = U64_ZERO,
                            !.output = Append(@, tree.nodes[child].value)]
             ELSE [d EXCEPT !.pos = @ + 1, !.current = tree.root,
                            !.count = U64WrappingDec(@),
                            !.output = Append(@, tree.nodes[child].value)]
        ELSE [d EXCEPT !.pos = @ + 1, !.current = child]

\* decode, lines 311-344: the loops over the payload, and the Ok(output)
\* that follows them.
RECURSIVE DecodeFrom(_, _, _, _, _)
DecodeFrom(tree, payload, d, checks, rounds) ==
    IF rounds = 0 THEN d
    ELSE IF rounds = 1 THEN DecodeBit(tree, payload, d, checks)
    ELSE Eval(LAMBDA walked : DecodeFrom(tree, payload, walked, checks, SecondHalf(rounds)),
              DecodeFrom(tree, payload, d, checks, FirstHalf(rounds)))

\* decode, lines 336 and 344: the value decode returns after the walk d.
DecodeResult(d) ==
    IF d.status = "Walking" THEN [status |-> "Ok", bytes |-> d.output]
    ELSE [status |-> d.status, bytes |-> d.output]

\* Huffman::decode(input) over an alphabet of n byte values.
decode(bytes_in, n, checks) ==
    IF Len(bytes_in) < SIZE_OF_U32 * n
    THEN [status |-> "Err", bytes |-> <<>>]
    ELSE Eval(LAMBDA frequencies :
                  Eval(LAMBDA tree :
                           Eval(LAMBDA payload :
                                    DecodeResult(DecodeFrom(tree, payload,
                                                        [status |-> "Walking", pos |-> 0,
                                                         current |-> tree.root,
                                                         count |-> DeclaredCount(frequencies, U64_ZERO, 1, n),
                                                         output |-> <<>>],
                                                        checks, 8 * Len(payload))),
                                SubSeqFrom(bytes_in, SIZE_OF_U32 * n + 1, Len(bytes_in))),
                       create_huffman_tree(frequencies)),
              [k \in 1 .. n |-> HeaderFrequency(bytes_in, k)])

\* The most bytes cut off an encoded stream before it is decoded, and the
\* bytes that may follow one.
MaxDrop == 2

TrailingBytes == {0, 255}

\* No tree built yet.
NoTree ==
    [nodes |-> <<>>, root |-> 0]

HuffmanInit ==
    /\ overflow_checks \in BOOLEAN
    /\ input \in HuffmanInputs
    /\ table = <<>>
    /\ huffman_tree = NoTree
    /\ encoded = NoResult
    /\ stream = <<>>
    /\ decoded = NoResult

HuffmanIdle ==
    /\ overflow_checks = TRUE
    /\ input = <<>>
    /\ table = <<>>
    /\ huffman_tree = NoTree
    /\ encoded = NoResult
    /\ stream = <<>>
    /\ decoded = NoResult

\* main.rs line 10: Huffman::encode(&file)
Encode ==
    /\ encoded.status = "None"
    /\ encoded' = encode(input, NumSymbols, overflow_checks)
    /\ UNCHANGED <<overflow_checks, input, table, huffman_tree, stream, decoded>>
    /\ UNCHANGED <<bitsVars, headerVars, lzVars, pngVars>>

\* Huffman::decode(bytes_in), the call and its result.
DecodeCall(bytes_in) ==
    /\ encoded.status = "Ok"
    /\ decoded.status = "None"
    /\ stream' = bytes_in
    /\ decoded' = decode(bytes_in, NumSymbols, overflow_checks)
    /\ UNCHANGED <<overflow_checks, input, table, huffman_tree, encoded>>
    /\ UNCHANGED <<bitsVars, headerVars, lzVars, pngVars>>

\* main.rs line 12: Huffman::decode(&sunbear_huffman)
Decode ==
    DecodeCall(encoded.bytes)

\* decode of a stream that lost its last bytes on the way.
DecodeTruncated ==
    \E drop \in 1 .. MaxDrop :
        /\ drop <= Len(encoded.bytes)
        /\ DecodeCall(SubSeqFrom(encoded.bytes, 1, Len(encoded.bytes) - drop))

\* decode of a stream followed by one more byte.
DecodeTrailing ==
    \E byte \in TrailingBytes :
        DecodeCall(Append(encoded.bytes, byte))

\* The alphabet of the long buffers.
LongSymbols == 34

\* The counts 1, 2, 4, 7, 12, ... of the first n byte values: each is the
\* sum of the two before it, plus one.
RECURSIVE GrowingCounts(_, _, _)
GrowingCounts(a, b, n) ==
    IF n = 0 THEN <<>>
    ELSE <<a>> \o GrowingCounts(b, SaturatingAdd(SaturatingAdd(a, b), U32(1)), n - 1)

\* The tables of the long buffers: the first n byte values occur, with
\* growing counts, and the others do not.
LongTables ==
    {GrowingCounts(U32(1), U32(2), n) \o [k \in 1 .. LongSymbols - n |-> U32_ZERO] :
        n \in 1 .. LongSymbols}

\* A long buffer: its counts, and its first byte, one that occurs in it.
LongInit ==
    /\ overflow_checks \in BOOLEAN
    /\ table \in LongTables
    /\ \E v \in 1 .. LongSymbols :
           /\ table[v] /= U32_ZERO
           /\ input = <<v - 1>>
    /\ huffman_tree = NoTree
    /\ encoded = NoResult
    /\ stream = <<>>
    /\ decoded = NoResult

\* main.rs line 10, Huffman::encode(&file) on a long buffer: the header and
\* the code of the first byte, which is how the encoded buffer starts (the
\* bits left in the last byte are those of the bytes that follow; the model
\* has zeros there).
EncodeLong ==
    /\ table /= <<>>
    /\ encoded.status = "None"
    /\ encoded' = EncodeWith(table, input, overflow_checks)
    /\ UNCHANGED <<overflow_checks, input, table, huffman_tree, stream, decoded>>
    /\ UNCHANGED <<bitsVars, headerVars, lzVars, pngVars>>

\* main.rs line 12, Huffman::decode(&sunbear_huffman) on the start of the
\* encoded long buffer.
DecodeLong ==
    /\ table /= <<>>
    /\ encoded.status = "Ok"
    /\ decoded.status = "None"
    /\ stream' = encoded.bytes
    /\ decoded' = decode(encoded.bytes, LongSymbols, overflow_checks)
    /\ UNCHANGED <<overflow_checks, input, table, huffman_tree, encoded>>
    /\ UNCHANGED <<bitsVars, headerVars, lzVars, pngVars>>

\* The alphabet of the frequency tables given to create_huffman_tree alone
\* (256 byte values in the code), and their largest frequency.
TreeSymbols == 5
MaxFrequency == 2

\* The frequency tables: every byte value with every frequency.
TreeTables ==
    [1 .. TreeSymbols -> {U32(f) : f \in 0 .. MaxFrequency}]

\* A frequency table, before its tree is built.
TreeInit ==
    /\ overflow_checks = TRUE
    /\ input = <<>>
    /\ table \in TreeTables
    /\ huffman_tree = NoTree
    /\ encoded = NoResult
    /\ stream = <<>>
    /\ decoded = NoResult

\* create_huffman_tree(&frequencies), as encode (line 238) and decode (line
\* 308) call it.
CreateHuffmanTree ==
    /\ table /= <<>>
    /\ huffman_tree = NoTree
    /\ huffman_tree' = create_huffman_tree(table)
    /\ UNCHANGED <<overflow_checks, input, table, encoded, stream, decoded>>
    /\ UNCHANGED <<bitsVars, headerVars, lzVars, pngVars>>

(***************************************************************************)
(* png/decoder.rs: PngData                                                 *)
(***************************************************************************)
PNG_HEADER == <<137, 80, 78, 71, 13, 10, 26, 10>>

\* The chunk tags that get_chunk_indexes looks for, as bytes.
IHDR == <<73, 72, 68, 82>>
PLTE == <<80, 76, 84, 69>>
IDAT == <<73, 68, 65, 84>>
IEND == <<73, 69, 78, 68>>

\* n zero bytes.
Zeros(n) ==
    [k \in 1 .. n |-> 0]

\* What the raw data is made of after its header: the tags, single bytes
\* and the 13 bytes of an IHDR chunk.
Pieces ==
    {IHDR, PLTE, IDAT, IEND, Zeros(1), Zeros(13)}

\* The most pieces after the header.
MaxPieces == 3

\* The byte vectors made of n pieces.
RECURSIVE Joined(_)
Joined(n) ==
    IF n = 0 THEN {<<>>}
    ELSE {before \o piece : before \in Joined(n - 1), piece \in Pieces}

\* The raw data given to build: a PNG header and pieces after it, or the
\* first bytes of a header alone.
PngInputs ==
    {PNG_HEADER \o after : after \in UNION {Joined(n) : n \in 0 .. MaxPieces}}
        \cup {SubSeqFrom(PNG_HEADER, 1, n) : n \in 0 .. Len(PNG_HEADER)}

\* PngData::walk(length) at index idx: the result, the chunk and the index
\* left, with the index kept where it is.
walk_in_place(raw, idx, length) ==
    IF idx + length > Len(raw)
    THEN [ok |-> FALSE, chunk |-> <<>>, index |-> idx]
    ELSE [ok |-> TRUE, chunk |-> SubSeqFrom(raw, idx + 1, idx + length), index |-> idx]

\* PngData::walk(length) at index idx: Err(NoMoreChunks) or Ok(chunk), and
\* the index left.
walk(raw, idx, length) ==
    IF idx + length > Len(raw)
    THEN [ok |-> FALSE, chunk |-> <<>>, index |-> idx]
    ELSE [ok |-> TRUE, chunk |-> SubSeqFrom(raw, idx + 1, idx + length), index |-> idx + 1]

\* raw_data[range.0 .. range.1] does not panic.
Sliceable(raw, range) ==
    range[1] <= range[2] /\ range[2] <= Len(raw)

\* PngData::build before get_chunk_indexes runs its loop (lines 84-91 and
\* 114-117).
PngInit ==
    /\ raw_data \in PngInputs
    /\ walk_index = Len(PNG_HEADER)
    /\ ihdr_index = <<0, 0>>
    /\ plte_index = <<0, 0>>
    /\ idat_index = <<0, 0>>
    /\ crc_index = <<0, Len(raw_data)>>
    /\ built = "None"

\* build is not called.
PngIdle ==
    /\ raw_data = <<>>
    /\ walk_index = 0
    /\ ihdr_index = <<0, 0>>
    /\ plte_index = <<0, 0>>
    /\ idat_index = <<0, 0>>
    /\ crc_index = <<0, 0>>
    /\ built = "NotCalled"

\* get_chunk_indexes, lines 118-145: one round of the loop, walk(4) is Ok.
WalkChunk ==
    /\ built = "None"
    /\ LET v == walk(raw_data, walk_index, 4)
       IN  /\ v.ok
           /\ walk_index' = v.index
           /\ ihdr_index' = IF v.chunk = IHDR
                            THEN <<v.index + 4, v.index + 4 + 13>>
                            ELSE ihdr_index
           /\ plte_index' = IF v.chunk = PLTE
                            THEN <<v.index + 4, plte_index[2]>>
                            ELSE IF v.chunk = IDAT /\ idat_index = <<0, 0>>
                                    /\ plte_index /= <<0, 0>>
                            THEN <<plte_index[1], v.index - 1>>
                            ELSE plte_index
           /\ idat_index' = IF v.chunk = IDAT /\ idat_index = <<0, 0>>
                            THEN <<v.index + 4, idat_index[2]>>
                            ELSE IF v.chunk = IEND
                            THEN <<idat_index[1], v.index - 1>>
                            ELSE idat_index
           /\ crc_index' = IF v.chunk = IEND
                           THEN <<v.index + 4, crc_index[2]>>
                           ELSE crc_index
    /\ UNCHANGED <<raw_data, built>>
    /\ UNCHANGED <<bitsVars, headerVars, lzVars, huffmanVars>>

\* get_chunk_indexes, lines 118 and 147, and build, lines 93-102: walk(4)
\* is Err, the loop ends, the four ranges are returned and build slices
\* raw_data with them; a slice out of range panics.
BuildReturn ==
    /\ built = "None"
    /\ LET v == walk(raw_data, walk_index, 4)
       IN  /\ ~v.ok
           /\ walk_index' = v.index
    /\ built' = IF /\ Sliceable(raw_data, ihdr_index)
                   /\ plte_index /= <<0, 0>> => Sliceable(raw_data, plte_index)
                   /\ Sliceable(raw_data, idat_index)
                   /\ Sliceable(raw_data, crc_index)
                THEN "Ok" ELSE "Panic"
    /\ UNCHANGED <<raw_data, ihdr_index, plte_index, idat_index, crc_index>>
    /\ UNCHANGED <<bitsVars, headerVars, lzVars, huffmanVars>>

(***************************************************************************)
(* Specifications                                                          *)
(***************************************************************************)
InitBits ==
    /\ BitStreamNew
    /\ HeaderIdle
    /\ LzIdle
    /\ HuffmanIdle
    /\ PngIdle

NextBits ==
    \E bit \in PushArgs : Push(bit)

SpecBits ==
    InitBits /\ [][NextBits]_vars

InitHeader ==
    /\ BitStreamNew
    /\ HeaderInit
    /\ LzIdle
    /\ HuffmanIdle
    /\ PngIdle

NextHeader ==
    \/ ParseBlockHeader
    \/ NextBlock

SpecHeader ==
    InitHeader /\ [][NextHeader]_vars

InitLz ==
    /\ BitStreamNew
    /\ HeaderIdle
    /\ LzInit
    /\ HuffmanIdle
    /\ PngIdle

NextLz ==
    \/ CompressStep
    \/ CompressReturn

SpecLz ==
    InitLz /\ [][NextLz]_vars

\* The variables of compress stay as LempelZiv::new leaves them.
InitTables ==
    /\ BitStreamNew
    /\ HeaderIdle
    /\ LzIdle
    /\ HuffmanIdle
    /\ PngIdle

NextTables ==
    \/ ReadExtra
    \/ FindRows

SpecTables ==
    InitTables /\ [][NextTables]_vars

InitHuffman ==
    /\ BitStreamNew
    /\ HeaderIdle
    /\ LzIdle
    /\ HuffmanInit
    /\ PngIdle

NextHuffman ==
    \/ Encode
    \/ Decode
    \/ DecodeTruncated
    \/ DecodeTrailing

SpecHuffman ==
    InitHuffman /\ [][NextHuffman]_vars

InitLong ==
    /\ BitStreamNew
    /\ HeaderIdle
    /\ LzIdle
    /\ LongInit
    /\ PngIdle

NextLong ==
    \/ EncodeLong
    \/ DecodeLong

SpecLong ==
    InitLong /\ [][NextLong]_vars

InitTree ==
    /\ BitStreamNew
    /\ HeaderIdle
    /\ LzIdle
    /\ TreeInit
    /\ PngIdle

NextTree ==
    CreateHuffmanTree

SpecTree ==
    InitTree /\ [][NextTree]_vars

InitPng ==
    /\ BitStreamNew
    /\ HeaderIdle
    /\ LzIdle
    /\ HuffmanIdle
    /\ PngInit

NextPng ==
    \/ WalkChunk
    \/ BuildReturn

SpecPng ==
    InitPng /\ [][NextPng]_vars

\* The loop of get_chunk_indexes runs on: a round that can be taken is taken.
SpecPngLive ==
    SpecPng /\ WF_vars(NextPng)

(***************************************************************************)
(* Properties                                                              *)
(***************************************************************************)
\* The input is one byte value, at least once.
SingleSymbol ==
    /\ Len(input) >= 1
    /\ \A k \in 1 .. Len(input) : input[k] = input[1]

\* decode was given exactly what encode returned.
RoundTrip ==
    /\ decoded.status /= "None"
    /\ stream = encoded.bytes

\* C1: for every buffer, encode returns Ok and decode of what it returned is
\* Ok with exactly the buffer; of a long buffer, the first byte at least.
RoundTripOfLongBuffer ==
    /\ encoded.status \in {"None", "Ok"}
    /\ RoundTrip => /\ decoded.status = "Ok"
                    /\ Len(decoded.bytes) >= 1
                    /\ decoded.bytes[1] = input[1]

\* C2: BFINAL is bit 0 of the byte and BTYPE the value of its bits 1..2,
\* whatever the upper five bits; 1 gives (true, 0), 5 (true, 2), 0 (false, 0).
HeaderBits ==
    header /= <<>> =>
        /\ header = <<header_byte % 2 = 1, (header_byte \div 2) % 4>>
        /\ header = parse_block_header(header_byte % 8)
        /\ header_byte = 1 => header = <<TRUE, 0>>
        /\ header_byte = 5 => header = <<TRUE, 2>>
        /\ header_byte = 0 => header = <<FALSE, 0>>

HeaderBitsWitness ==
    /\ header_byte = 253
    /\ header = <<TRUE, 2>>

\* C3: block type 3 is never handed to the caller.
ReservedBlockTypeRejected ==
    header /= <<>> => header[2] /= 3

\* C4: a push of a value other than 0 and 1 leaves len and bytes unchanged.
NonBinaryPushAppendsNothing ==
    [][(pushed' /= pushed /\ pushed'[Len(pushed')] \notin {0, 1})
           => (len' = len /\ bytes' = bytes)]_vars

\* C5: bytes.len() is len / 8 rounded up, and the bits of the last byte
\* beyond position len - 1 are 0.
BytesLenAndPadding ==
    /\ Len(bytes) = (len + 7) \div 8
    /\ len % 8 /= 0 => bytes[Len(bytes)] % Pow2(8 - (len % 8)) = 0

BytesLenAndPaddingWitness ==
    /\ len = 9
    /\ bytes = <<255, 128>>

\* The values pushed so far are all 0 or 1.
BinaryPushes ==
    \A k \in 1 .. Len(pushed) : pushed[k] \in {0, 1}

\* C6: after pushes of bits, bit k of the stream is in byte k / 8 at position
\* 7 - k % 8, so the buffer reads back as the bits pushed; each push adds
\* one to len and leaves the bits pushed before as they were.
BitsReadBack ==
    /\ [](BinaryPushes => (len = Len(pushed) /\ ReadBack = pushed))
    /\ [][BinaryPushes' =>
             /\ len' = len + 1
             /\ \A k \in 0 .. (len - 1) : BitAt(k)' = BitAt(k)]_vars

BitsReadBackWitness ==
    /\ pushed = <<1, 0, 1, 1, 0, 0, 1, 0, 1>>
    /\ bytes = <<178, 128>>

\* The length of the code that encode uses for the first byte of the input.
FirstCodeLength ==
    create_huffman_tree(CountFrequencies(input, 1, [v \in 1 .. NumSymbols |-> U32_ZERO])
                       ).nodes[input[1] + 1].length

\* C7: when the input is copies of one byte value, the code of that value
\* has length 1, and decode of what encode returned is Ok with the input.
SingleSymbolCode ==
    SingleSymbol =>
        /\ FirstCodeLength = 1
        /\ encoded.status /= "None" =>
               /\ encoded.status = "Ok"
               /\ Len(encoded.bytes) = SIZE_OF_U32 * NumSymbols + ((Len(input) + 7) \div 8)
        /\ RoundTrip => (decoded.status = "Ok" /\ decoded.bytes = input)

SingleSymbolCodeWitness ==
    /\ input = <<1, 1, 1>>
    /\ RoundTrip
    /\ decoded.bytes = <<1, 1, 1>>

\* C8: decode never returns Ok with fewer symbols than the header declares
\* (the header here is the one encode wrote, which declares Len(input)).
NoShortOk ==
    (decoded.status = "Ok" /\ Len(stream) >= SIZE_OF_U32 * NumSymbols) =>
        Len(decoded.bytes) >= Len(input)

\* C9: the tokens lzss.rs emits for A B B B B B are Literal A, Literal B,
\* Match(length 4, distance 1).
TokensOfABBBBB ==
    (variant = "lzss.rs" /\ returned /= <<>> /\ data = <<65, 66, 66, 66, 66, 66>>) =>
        /\ Len(tokens) = 3
        /\ tokens[1].kind = "Literal" /\ tokens[1].byte = 65
        /\ tokens[2].kind = "Literal" /\ tokens[2].byte = 66
        /\ tokens[3].kind = "Match" /\ tokens[3].length = 4 /\ tokens[3].distance = 1

\* C10: every Match lzss.rs emits has length <= 258 and distance <=
\* min(buffer_size, 32768).
MatchWithinWindow ==
    \A k \in 1 .. Len(tokens) :
        (variant = "lzss.rs" /\ tokens[k].kind = "Match") =>
            /\ tokens[k].length <= 258
            /\ tokens[k].distance <= buffer_size
            /\ tokens[k].distance <= 32768

\* compress, line 143: check_for once the byte at i is pushed.
Candidate ==
    Append(check_for, data[i + 1])

\* compress, line 148: the candidate looked up for a match, which is
\* check_for less its last byte.
BackedOff ==
    SubSeqFrom(Candidate, 1, Len(Candidate) - 1)

\* The (0-based) position in data of the first byte of the candidate.
CandidateStart ==
    i - Len(check_for)

\* needle is in haystack at the (0-based) position pos.
OccursAt(needle, haystack, pos) ==
    /\ pos >= 0
    /\ pos + Len(needle) <= Len(haystack)
    /\ \A k \in 1 .. Len(needle) : haystack[pos + k] = needle[k]

\* This step of lzss.rs emits a Match.
EmitsMatch ==
    /\ variant = "lzss.rs"
    /\ Len(tokens') = Len(tokens) + 1
    /\ tokens'[Len(tokens')].kind = "Match"

\* The bytes the Match of this step stands for: as many as its length, from
\* the start of the candidate.
Matched ==
    SubSeqFrom(data, CandidateStart + 1, CandidateStart + tokens'[Len(tokens')].length)

\* The positions before the candidate at which the matched bytes occur in
\* the bytes processed so far.
EarlierOccurrences ==
    {pos \in 0 .. (CandidateStart - 1) : OccursAt(Matched, search_buffer, pos)}

\* C11: when the matched candidate occurs at more than one earlier position,
\* the Match reports the nearest one: no occurrence is at a smaller distance
\* than the distance reported.
NearestOccurrenceReported ==
    [][(EmitsMatch /\ Cardinality(EarlierOccurrences) > 1) =>
           \A pos \in EarlierOccurrences :
               tokens'[Len(tokens')].distance <= CandidateStart - pos]_vars

\* C12: what compress returns ends with a block whose header has BFINAL = 1:
\* the block starts at some byte of it, and parse_block_header of that byte
\* gives bfinal = true.
ReturnsFinalBlock ==
    returned /= <<>> =>
        \E k \in 1 .. Len(returned) : parse_block_header(returned[k])[1]

\* The rows of the table `name` carry the symbols from `first_symbol` on, and
\* their ranges follow one another from `first` to `last` without a gap.
Contiguous(name, first_symbol, first, last) ==
    LET t == Ranges(name)
    IN  /\ \A k \in 1 .. Len(t) : t[k][1] = first_symbol + k - 1
        /\ t[1][3] = first
        /\ \A k \in 2 .. Len(t) : t[k][3] = t[k - 1][4] + 1
        /\ \A k \in 1 .. Len(t) : t[k][3] <= t[k][4]
        /\ t[Len(t)][4] = last

\* C13: each table partitions its domain: symbols 257.. (lengths) and 0..
\* (distances) in row order, ranges contiguous from 3 to 258 and from 1 to
\* 32768, so every legal value is in exactly one row.
TablesPartition ==
    /\ Contiguous("LENGTH_CODE_RANGES", 257, 3, 258)
    /\ Contiguous("DISTANCE_CODE_RANGES", 0, 1, 32768)
    /\ (ranges /= "None" /\ extra = -1) =>
           /\ range_value \in LegalValues(ranges)
           /\ Cardinality(rows) = 1

TablesPartitionWitness ==
    /\ ranges = "DISTANCE_CODE_RANGES"
    /\ extra = -1
    /\ range_value = 24577
    /\ rows = {30}

\* The row that was read with extra bits.
RowRead ==
    Ranges(ranges)[CHOOSE k \in rows : TRUE]

\* Extra bits were read with a row.
ExtraRead ==
    ranges /= "None" /\ extra >= 0

\* C14 as stated: for every row and every value x of its extra bits, range
\* start + x is inside the row's range.
ExtraBitsInRange ==
    ExtraRead => InRange(RowRead, range_value)

\* C14: for every row and every value x of its extra bits, range start + x
\* is inside the row's range, except the last value (31) of the five extra
\* bits of length symbol 284, whose range 227..257 has 31 values; symbol 269
\* has 2 extra bits and the range 19..22, and its extra bits 01 give 20.
ExtraBitsInRangeBut284 ==
    ExtraRead =>
        /\ (RowRead[1] = 284 /\ extra = 31) \/ InRange(RowRead, range_value)
        /\ (RowRead[1] = 284 /\ extra = 31) => range_value = 258
        /\ (ranges = "LENGTH_CODE_RANGES" /\ RowRead[1] = 269) =>
               /\ RowRead = <<269, 2, 19, 22>>
               /\ extra = 1 => range_value = 20

ExtraBitsInRangeBut284Witness ==
    /\ ranges = "LENGTH_CODE_RANGES"
    /\ rows = {13}
    /\ extra = 1
    /\ range_value = 20

\* A tree was built for the table.
TreeBuilt ==
    huffman_tree /= NoTree

\* When node x left the queue: the parent made of it takes it first (left,
\* node_1) or second (right, node_2), parents are made in the order of their
\* ids, and the root is popped last (line 147).
PopTime(nodes, x) ==
    IF \E p \in 1 .. Len(nodes) : nodes[p].left = x
    THEN 2 * (CHOOSE p \in 1 .. Len(nodes) : nodes[p].left = x)
    ELSE IF \E p \in 1 .. Len(nodes) : nodes[p].right = x
    THEN 2 * (CHOOSE p \in 1 .. Len(nodes) : nodes[p].right = x) + 1
    ELSE 2 * Len(nodes) + 2

\* C15: of two leaves of equal frequency, the one of the smaller symbol is
\* popped from the queue first, for every frequency table.
TiesPoppedInSymbolOrder ==
    TreeBuilt =>
        \A x, y \in 1 .. Len(table) :
            (x < y /\ table[x] = table[y]) =>
                PopTime(huffman_tree.nodes, x) < PopTime(huffman_tree.nodes, y)

\* The nodes of the tree below node p, p included.
RECURSIVE Below(_, _)
Below(nodes, p) ==
    IF p = 0 THEN {}
    ELSE IF nodes[p].leaf THEN {p}
    ELSE {p} \cup Below(nodes, nodes[p].left) \cup Below(nodes, nodes[p].right)

\* address << 1 of a u32, by its halves.
Doubled(address) ==
    <<(2 * address[1] + address[2] \div 32768) % 65536, (2 * address[2]) % 65536>>

\* C20: the root has address 0 and length 0; every non-leaf node has two
\* children, the left one with the address parent << 1, the right one with
\* (parent << 1) | 1, both with the parent's length + 1; there is exactly
\* one leaf per byte value of the alphabet.
TreeShape ==
    TreeBuilt =>
        LET nodes == huffman_tree.nodes
            root == huffman_tree.root
            in_tree == Below(nodes, root)
        IN  /\ nodes[root].address = <<0, 0>>
            /\ nodes[root].length = 0
            /\ \A p \in in_tree :
                   ~nodes[p].leaf =>
                       /\ nodes[p].left /= 0
                       /\ nodes[p].right /= 0
                       /\ nodes[nodes[p].left].address = Doubled(nodes[p].address)
                       /\ nodes[nodes[p].right].address =
                              <<Doubled(nodes[p].address)[1],
                                Doubled(nodes[p].address)[2] + 1>>
                       /\ nodes[nodes[p].left].length = nodes[p].length + 1
                       /\ nodes[nodes[p].right].length = nodes[p].length + 1
            /\ Cardinality({p \in in_tree : nodes[p].leaf}) = Len(table)
            /\ \A v \in 0 .. Len(table) - 1 :
                   Cardinality({p \in in_tree : nodes[p].leaf /\ nodes[p].value = v}) = 1

\* A tree with a leaf four levels down that is a right child.
TreeShapeWitness ==
    /\ TreeBuilt
    /\ \E p \in 1 .. Len(table) :
           /\ huffman_tree.nodes[p].length = 4
           /\ huffman_tree.nodes[p].address[2] % 2 = 1

\* C16: a Match emitted for the candidate that starts at s has a distance
\* that is a true back-reference: 1 <= distance <= s, and the `length` bytes
\* from s - distance on are the bytes from s on.
TrueBackReference ==
    [][EmitsMatch =>
           LET distance == tokens'[Len(tokens')].distance
               length == tokens'[Len(tokens')].length
               s == CandidateStart
           IN  /\ 1 <= distance
               /\ distance <= s
               /\ \A k \in 0 .. length - 1 :
                      data[s - distance + k + 1] = data[s + k + 1]]_vars

\* The number of input bytes a token covers.
CoveredBy(token) ==
    IF token.kind = "Literal" THEN 1 ELSE token.length

\* The number of input bytes the first n tokens cover.
RECURSIVE Covered(_, _)
Covered(toks, n) ==
    IF n = 0 THEN 0 ELSE Covered(toks, n - 1) + CoveredBy(toks[n])

\* What the expansion of a Match that refers to bytes that are not there
\* yields.
NoBytes ==
    <<-1>>

\* The bytes that a Match copies to the end of out, one at a time, each
\* from `distance` back.
RECURSIVE Copied(_, _, _)
Copied(out, distance, length) ==
    IF out = NoBytes \/ length = 0 THEN out
    ELSE IF distance < 1 \/ distance > Len(out) THEN NoBytes
    ELSE Copied(Append(out, out[Len(out) - distance + 1]), distance, length - 1)

\* The first n tokens expanded from left to right.
RECURSIVE Expanded(_, _)
Expanded(toks, n) ==
    IF n = 0 THEN <<>>
    ELSE LET before == Expanded(toks, n - 1)
         IN  IF before = NoBytes THEN NoBytes
             ELSE IF toks[n].kind = "Literal" THEN Append(before, toks[n].byte)
             ELSE Copied(before, toks[n].distance, toks[n].length)

\* C17: the tokens of a finished compress cover every input byte once: the
\* covered lengths sum to data.len() and the tokens expand to the input.
TokensCoverInput ==
    returned /= <<>> =>
        /\ Covered(tokens, Len(tokens)) = Len(data)
        /\ Expanded(tokens, Len(tokens)) = data

\* compress of lzss.rs emits a token: the candidate is not found, or the
\* input is exhausted.
Emits ==
    /\ variant = "lzss.rs"
    /\ Len(tokens') = Len(tokens) + 1

\* C19: when the candidate is not found or the input is exhausted, compress
\* emits a Match for the backed-off candidate when that has 2 bytes or
\* more, with its length, and a Literal otherwise.
BackedOffCandidateEmitted ==
    [][Emits =>
           IF Len(BackedOff) >= 2
           THEN /\ tokens'[Len(tokens')].kind = "Match"
                /\ tokens'[Len(tokens')].length = Len(BackedOff)
           ELSE tokens'[Len(tokens')].kind = "Literal"]_vars

\* The leftmost (0-based) position of needle in haystack, -1 when it does
\* not occur.
Leftmost(needle, haystack) ==
    LET occurrences == {pos \in 0 .. Len(haystack) : OccursAt(needle, haystack, pos)}
    IN  IF occurrences = {} THEN -1
        ELSE CHOOSE pos \in occurrences : \A other \in occurrences : pos <= other

\* C18: in_array of a candidate (which is not empty) and the bytes processed
\* before it, as compress calls it at line 144, is the leftmost position of
\* the candidate in these bytes, and -1 exactly when it does not occur.
InArrayLeftmost ==
    (returned = <<>> /\ i < Len(data)) =>
        in_array(Candidate, search_buffer) = Leftmost(Candidate, search_buffer)

\* The length of the code of the byte value whose leaf is node v.
CodeLength(v) ==
    huffman_tree.nodes[v].length

\* The frequencies of the table add up without saturating.
NoSaturation ==
    \A v \in 1 .. Len(table) : table[v][1] = 0

\* C21: without saturation the code lengths are monotone in the frequency:
\* a byte value that is more frequent than another has a code that is no
\* longer.
LengthsMonotone ==
    (TreeBuilt /\ NoSaturation) =>
        \A a, b \in 1 .. Len(table) :
            ~U32Le(table[a], table[b]) => CodeLength(a) <= CodeLength(b)

\* A tree in which the more frequent of two byte values has the strictly
\* shorter code.
LengthsMonotoneWitness ==
    /\ TreeBuilt
    /\ NoSaturation
    /\ \E a, b \in 1 .. Len(table) :
           /\ ~U32Le(table[a], table[b])
           /\ CodeLength(a) < CodeLength(b)

\* The total symbol count that the header of the stream given to decode
\* declares, a u64: the sum of its frequencies.
DeclaredTotal ==
    DeclaredCount([k \in 1 .. NumSymbols |-> HeaderFrequency(stream, k)],
                  U64_ZERO, 1, NumSymbols)

\* C22: decode returns at most as many symbols as the header declares, and
\* none when it declares 0, whatever the payload.
AtMostDeclaredCount ==
    (decoded.status = "Ok" /\ DeclaredTotal[1] = 0 /\ DeclaredTotal[2] = 0
                           /\ DeclaredTotal[3] = 0) =>
        Len(decoded.bytes) <= DeclaredTotal[4]

\* The lengths and shifts of the codes of the table's tree are in range:
\* every byte value that occurs has a length in 1 .. 32, and encode's shift
\* by 32 - length is one by 0 .. 31 that does not underflow.
LengthsFit(tree) ==
    \A v \in 1 .. Len(table) :
        table[v] /= U32_ZERO =>
            /\ tree.nodes[v].length >= 1
            /\ tree.nodes[v].length <= 32
            /\ CodeShift(tree.nodes[v].length, TRUE) = 32 - tree.nodes[v].length

\* C24: for every frequency table, each byte value of nonzero frequency has
\* a code length between 1 and 32, and `address << (32 - length)` neither
\* underflows nor shifts by 32 or more.
CodeLengthsFit ==
    table /= <<>> => Eval(LengthsFit, create_huffman_tree(table))

\* encode, lines 256-265: the bits that the loop writes for a code, the top
\* bit of `code` in each of its `rounds` rounds.
RECURSIVE WrittenBits(_, _)
WrittenBits(code, rounds) ==
    IF rounds = 0 THEN <<>>
    ELSE <<IF TopBit(code) THEN 1 ELSE 0>> \o WrittenBits(Shl32(code), rounds - 1)

\* encode, lines 250-265: the code of a leaf, as the `length` bits written
\* for it, most significant first.
CodeBits(leaf) ==
    WrittenBits(Shl32By(leaf.address, CodeShift(leaf.length, overflow_checks)),
                leaf.length)

\* The bits of `short` are the first bits of `long`.
IsPrefix(short, long) ==
    /\ Len(short) <= Len(long)
    /\ \A k \in 1 .. Len(short) : short[k] = long[k]

\* The codes that encode writes for the byte values that occur: those of
\* the leaves of `tree` with a nonzero frequency, when encode does not panic.
PrefixFreeCodes(tree) ==
    LET occurring == {v \in 1 .. Len(table) : table[v] /= U32_ZERO}
        codes == [v \in occurring |-> CodeBits(tree.nodes[v])]
    IN  (\A v \in occurring : CodeShift(tree.nodes[v].length, overflow_checks) >= 0) =>
            \A a, b \in occurring : a /= b => ~IsPrefix(codes[a], codes[b])

\* C23: the codes of two distinct byte values that occur in the input are
\* prefix-free: neither is a prefix of the other.
CodesPrefixFree ==
    table /= <<>> => Eval(PrefixFreeCodes, create_huffman_tree(table))

\* build has come to its end.
BuildEnded ==
    built \in {"Ok", "Panic"}

\* C25: build returns for every raw byte vector: each of the four ranges of
\* get_chunk_indexes has start <= end <= raw_data.len(), and no slice fails.
ChunkRangesSliceable ==
    BuildEnded =>
        /\ Sliceable(raw_data, ihdr_index)
        /\ Sliceable(raw_data, plte_index)
        /\ Sliceable(raw_data, idat_index)
        /\ Sliceable(raw_data, crc_index)
        /\ built = "Ok"

\* A round of the loop of get_chunk_indexes adds exactly 1 to the index, and
\* the walk that ends the loop finds index + 4 beyond the raw data and
\* leaves the index as it is.
WalkMovesByOne ==
    [][/\ (built = "None" /\ built' = "None") => walk_index' = walk_index + 1
       /\ (built = "None" /\ built' /= "None") =>
              /\ walk_index + 4 > Len(raw_data)
              /\ walk_index' = walk_index]_vars

\* C26 as stated: get_chunk_indexes terminates, a successful walk(4) adds
\* exactly 1 to index, the failing walk leaves index as it is once
\* index + 4 > raw_data.len(), and index never exceeds raw_data.len().
WalkEndsWithinRawData ==
    /\ WalkMovesByOne
    /\ [](built /= "NotCalled" => walk_index <= Len(raw_data))
    /\ <>BuildEnded

\* C26: get_chunk_indexes terminates, a successful walk(4) adds exactly 1
\* to index and the failing walk leaves index as it is once
\* index + 4 > raw_data.len(); index never exceeds raw_data.len() when the
\* raw data has the 8 bytes of a PNG header, and stays 8 when it is shorter.
WalkEnds ==
    /\ WalkMovesByOne
    /\ [](built /= "NotCalled" =>
              IF Len(raw_data) >= Len(PNG_HEADER)
              THEN walk_index <= Len(raw_data)
              ELSE walk_index = Len(PNG_HEADER))
    /\ <>BuildEnded

\* The loop has ended after rounds of which one found the IHDR tag.
WalkEndsWitness ==
    /\ BuildEnded
    /\ walk_index > Len(PNG_HEADER)
    /\ walk_index + 4 > Len(raw_data)
    /\ ihdr_index /= <<0, 0>>

====
